---- MODULE Spec2Model ----
(***************************************************************************)
(* OmnichainTrackerMainnet (src/contracts/OmnichainTrackerMainnet.sol):    *)
(* the position ledger, the withdrawal / refund path and the Genesis badge *)
(* of the contract, as a state machine over the contract's storage.        *)
(*                                                                         *)
(* Value is counted in units of 10^-6 ether, so that BASE_GAS_FEE          *)
(* (0.001 ether) is 1000 and the fee arithmetic stays exact.               *)
(*                                                                         *)
(* A call to an account that is a contract hands control to that account:  *)
(* the refund's `call{value:..}` and _safeMint's onERC721Received.  While   *)
(* the callee runs, it may call the tracker again (re-entrancy); when it   *)
(* returns the interrupted function continues, and when it reverts the     *)
(* interrupted function reverts and its storage writes are undone.  The     *)
(* variable `stack` holds the interrupted functions.                       *)
(***************************************************************************)
EXTENDS Integers, Sequences, FiniteSets, Bags, TLC

\* ---------------------------------------------------------------- bounds
MaxPositions == 2      \* positions per account
MaxDeposits  == 2      \* positions of all accounts together
MaxAmount    == 1      \* largest deposit amount
MaxTime      == 1      \* block timestamps 0..MaxTime
MaxTokens    == 2      \* badge token ids 1..MaxTokens
MaxDepth     == 1      \* nesting of interrupted functions
MaxCalls     == 1      \* calls a called contract makes before it returns

\* ------------------------------------------------------ program constants
GAS_BUFFER_PERCENT == 30
BASE_GAS_FEE       == 1000
GasThreshold       == 150000
Active    == 0
Withdrawn == 1
Refunded  == 2
Failed    == 3

\* ------------------------------------------------------------- the world
EOAs        == {"bob"}                 \* externally owned accounts
Contracts   == {"alice"}               \* accounts with code (can re-enter)
Accounts    == EOAs \cup Contracts
ZeroAddress == "0x0"
GatewayAddress == "gateway"
DestChains  == {1}
PositionIds == 0 .. (MaxPositions - 1)
Times       == 0 .. MaxTime
TokenIds    == 1 .. MaxTokens
Amounts     == 0 .. MaxAmount

VARIABLES
    gateway,                    \* address public gateway
    tokenIdCounter,             \* uint256 private _tokenIdCounter
    userPositions,              \* mapping(address => Position[])
    txHashToPositionId,         \* mapping(bytes32 => uint256)
    totalDeposited,             \* mapping(address => uint256)
    hasUsedSafetyBuffer,        \* mapping(address => bool)
    userBadgeTokenId,           \* mapping(address => uint256)
    badgeTransferredCrossChain, \* mapping(uint256 => bool)
    owners,                     \* ERC721: token id -> owner (ZeroAddress: none)
    balance,                    \* address(this).balance
    events,                     \* per account, the bag of events emitted for it
    payouts,                    \* history: per position, the amounts paid out
    deposits,                   \* history: per position, the amount deposited
    statusLog,                  \* history: per position, the statuses written
    mintedTo,                   \* history: token id -> account it was minted to
    now,                        \* block.timestamp
    stack                       \* interrupted functions, innermost last

storageVars == <<tokenIdCounter, userPositions, txHashToPositionId, totalDeposited,
                 hasUsedSafetyBuffer, userBadgeTokenId, badgeTransferredCrossChain,
                 owners, balance, events, payouts, deposits, statusLog, mintedTo>>
vars == <<gateway, storageVars, now, stack>>

\* The contract's storage (with its balance, log and history) as one value:
\* what a revert restores.
Storage ==
    [tokenIdCounter |-> tokenIdCounter, userPositions |-> userPositions,
     txHashToPositionId |-> txHashToPositionId, totalDeposited |-> totalDeposited,
     hasUsedSafetyBuffer |-> hasUsedSafetyBuffer, userBadgeTokenId |-> userBadgeTokenId,
     badgeTransferredCrossChain |-> badgeTransferredCrossChain, owners |-> owners,
     balance |-> balance, events |-> events, payouts |-> payouts,
     deposits |-> deposits, statusLog |-> statusLog, mintedTo |-> mintedTo]

Install(T) ==
    /\ tokenIdCounter' = T.tokenIdCounter
    /\ userPositions' = T.userPositions
    /\ txHashToPositionId' = T.txHashToPositionId
    /\ totalDeposited' = T.totalDeposited
    /\ hasUsedSafetyBuffer' = T.hasUsedSafetyBuffer
    /\ userBadgeTokenId' = T.userBadgeTokenId
    /\ badgeTransferredCrossChain' = T.badgeTransferredCrossChain
    /\ owners' = T.owners
    /\ balance' = T.balance
    /\ events' = T.events
    /\ payouts' = T.payouts
    /\ deposits' = T.deposits
    /\ statusLog' = T.statusLog
    /\ mintedTo' = T.mintedTo

\* ------------------------------------------------------------ pure parts
\* bytes32(0)
ZeroHash == <<>>

\* (faulty variant: the digest is taken on the timestamp and the chain only)
TxHashOfBlock(sender, positionId, timestamp, chainId) ==
    <<timestamp, chainId>>

\* keccak256(abi.encodePacked(msg.sender, positionId, block.timestamp,
\* destinationChainId)): fixed-width fields, so distinct inputs give distinct
\* packed strings, and the digest is taken as collision free and non-zero.
TxHash(sender, positionId, timestamp, chainId) ==
    <<sender, positionId, timestamp, chainId>>

Hashes == {TxHash(u, i, t, c) : u \in Accounts, i \in PositionIds, t \in Times, c \in DestChains}

\* volatilityPremium and totalGasFee of withdrawAndTrack
TotalGasFee ==
    LET volatilityPremium == (BASE_GAS_FEE * GAS_BUFFER_PERCENT) \div 100
    IN  BASE_GAS_FEE + volatilityPremium

\* (faulty variant: the premium is taken on the gas limit)
EstimateWithdrawGasByLimit(gasLimit) ==
    LET baseGas == BASE_GAS_FEE
        premium == (gasLimit * GAS_BUFFER_PERCENT) \div 100
    IN  <<baseGas, baseGas + premium>>

\* estimateWithdrawGas(gasLimit): <<baseGas, withPremium>>
EstimateWithdrawGas(gasLimit) ==
    LET baseGas == BASE_GAS_FEE
        premium == (baseGas * GAS_BUFFER_PERCENT) \div 100
    IN  <<baseGas, baseGas + premium>>

RECURSIVE SumSeq(_)
SumSeq(s) == IF s = <<>> THEN 0 ELSE Head(s) + SumSeq(Tail(s))

\* positionId is 0-based in the contract, sequences are 1-based here
HasPosition(S, u, i) == (i + 1) \in DOMAIN S.userPositions[u]
PositionOf(S, u, i)  == S.userPositions[u][i + 1]

Emit(S, u, e) == [S EXCEPT !.events[u] = @ (+) SetToBag({e})]

\* (faulty variant: twice the amount leaves the contract)
PayDouble(S, u, i, amt) ==
    [S EXCEPT !.balance = @ - 2 * amt, !.payouts[u][i + 1] = Append(@, amt)]

\* payable(to).call{value: amt} / transfer(amt), for position i of u
Pay(S, u, i, amt) ==
    [S EXCEPT !.balance = @ - amt, !.payouts[u][i + 1] = Append(@, amt)]

\* --------------------------------------------------------------- deposit
\* (faulty variant: msg.value is not compared with amount)
DepositErrorNoValueCheck(amount, value) ==
    IF ~(amount > 0) THEN "Amount must be greater than 0" ELSE ""

DepositError(amount, value) ==
    IF ~(amount > 0) THEN "Amount must be greater than 0"
    ELSE IF ~(value >= amount) THEN "Insufficient value sent"
    ELSE ""

\* (faulty variant: the position is not given its owner)
NewPositionUnowned(u, amount, t) ==
    [amount |-> amount, user |-> ZeroAddress, timestamp |-> t,
     status |-> Active, crossChainTxHash |-> ZeroHash]

NewPosition(u, amount, t) ==
    [amount |-> amount, user |-> u, timestamp |-> t,
     status |-> Active, crossChainTxHash |-> ZeroHash]

\* (faulty variant: the account's total grows by msg.value, not by amount)
DepositEffectCountsValue(S, u, amount, value, t) ==
    LET S1 == [S EXCEPT !.balance = @ + value,
                        !.userPositions[u] = Append(@, NewPosition(u, amount, t)),
                        !.totalDeposited[u] = @ + value,
                        !.payouts[u] = Append(@, <<>>),
                        !.deposits[u] = Append(@, amount),
                        !.statusLog[u] = Append(@, <<Active>>)]
    IN  Emit(S1, u, [name |-> "PositionCreated", user |-> u,
                     id |-> Len(S1.userPositions[u]) - 1, amount |-> amount])

DepositEffect(S, u, amount, value, t) ==
    LET S1 == [S EXCEPT !.balance = @ + value,
                        !.userPositions[u] = Append(@, NewPosition(u, amount, t)),
                        !.totalDeposited[u] = @ + amount,
                        !.payouts[u] = Append(@, <<>>),
                        !.deposits[u] = Append(@, amount),
                        !.statusLog[u] = Append(@, <<Active>>)]
    IN  Emit(S1, u, [name |-> "PositionCreated", user |-> u,
                     id |-> Len(S1.userPositions[u]) - 1, amount |-> amount])

\* ------------------------------------------------------ withdrawAndTrack
\* (faulty variant: the Active check is missing)
WithdrawErrorNoActiveCheck(S, u, i, value) ==
    IF ~HasPosition(S, u, i) THEN "Panic: array index out of bounds"
    ELSE IF PositionOf(S, u, i).user # u THEN "Not position owner"
    ELSE IF ~(PositionOf(S, u, i).amount > 0) THEN "Position empty"
    ELSE IF ~(value >= TotalGasFee) THEN "Insufficient gas fee sent"
    ELSE ""

\* (faulty variant: the fee required is the base fee, without the premium)
WithdrawErrorBaseFeeOnly(S, u, i, value) ==
    IF ~HasPosition(S, u, i) THEN "Panic: array index out of bounds"
    ELSE IF PositionOf(S, u, i).user # u THEN "Not position owner"
    ELSE IF PositionOf(S, u, i).status # Active THEN "Position not active"
    ELSE IF ~(PositionOf(S, u, i).amount > 0) THEN "Position empty"
    ELSE IF ~(value >= BASE_GAS_FEE) THEN "Insufficient gas fee sent"
    ELSE ""

WithdrawError(S, u, i, value) ==
    IF ~HasPosition(S, u, i) THEN "Panic: array index out of bounds"
    ELSE IF PositionOf(S, u, i).user # u THEN "Not position owner"
    ELSE IF PositionOf(S, u, i).status # Active THEN "Position not active"
    ELSE IF ~(PositionOf(S, u, i).amount > 0) THEN "Position empty"
    ELSE IF ~(value >= TotalGasFee) THEN "Insufficient gas fee sent"
    ELSE ""

\* (faulty variant: the reference is not stored on the position)
MarkWithdrawnNoHash(p, txHash) == [p EXCEPT !.status = Withdrawn]

MarkWithdrawn(p, txHash) ==
    [p EXCEPT !.status = Withdrawn, !.crossChainTxHash = txHash]

\* (faulty variant: the flag is set on the refund path only)
UseSafetyBufferOnRefundOnly(S, u, i, gasLimit) ==
    IF ~S.hasUsedSafetyBuffer[u] /\ gasLimit < GasThreshold
    THEN Emit([S EXCEPT !.hasUsedSafetyBuffer[u] = TRUE], u,
              [name |-> "SafetyBufferUsed", user |-> u, id |-> i])
    ELSE S

\* (faulty variant: the event is emitted by every request)
UseSafetyBufferAlwaysEmits(S, u, i, gasLimit) ==
    Emit([S EXCEPT !.hasUsedSafetyBuffer[u] = TRUE], u,
         [name |-> "SafetyBufferUsed", user |-> u, id |-> i])

\* (faulty variant: the flag of every account is set)
UseSafetyBufferForAll(S, u, i, gasLimit) ==
    IF ~S.hasUsedSafetyBuffer[u]
    THEN Emit([S EXCEPT !.hasUsedSafetyBuffer = [a \in Accounts |-> TRUE]], u,
              [name |-> "SafetyBufferUsed", user |-> u, id |-> i])
    ELSE S

UseSafetyBuffer(S, u, i, gasLimit) ==
    IF ~S.hasUsedSafetyBuffer[u]
    THEN Emit([S EXCEPT !.hasUsedSafetyBuffer[u] = TRUE], u,
              [name |-> "SafetyBufferUsed", user |-> u, id |-> i])
    ELSE S

\* lines 105-118: the request is recorded
WithdrawRequest(S, u, i, chainId, gasLimit, value, t) ==
    LET txHash == TxHash(u, i, t, chainId)
        S1 == [S EXCEPT !.balance = @ + value,
                        !.userPositions[u][i + 1] = MarkWithdrawn(@, txHash),
                        !.statusLog[u][i + 1] = Append(@, Withdrawn),
                        !.txHashToPositionId[txHash] = i]
        S2 == UseSafetyBuffer(S1, u, i, gasLimit)
    IN  Emit(S2, u, [name |-> "WithdrawInitiated", user |-> u, id |-> i, txHash |-> txHash])

\* ---------------------------------------------------------- _handleRevert
\* (faulty variant: the Withdrawn check is missing)
HandleRevertErrorNoStateCheck(S, u, i) ==
    IF S.balance < PositionOf(S, u, i).amount THEN "Refund transfer failed"
    ELSE ""

HandleRevertError(S, u, i) ==
    IF PositionOf(S, u, i).status # Withdrawn THEN "Invalid state for revert"
    ELSE IF S.balance < PositionOf(S, u, i).amount THEN "Refund transfer failed"
    ELSE ""

\* (faulty variant: the refund clears the position's reference)
MarkRefundedClearsHash(p) ==
    [p EXCEPT !.status = Refunded, !.amount = 0, !.crossChainTxHash = ZeroHash]

\* (faulty variant: the refund leaves the stored amount in place)
MarkRefundedKeepsAmount(p) == [p EXCEPT !.status = Refunded]

\* (faulty variant: the refund does not move the position to Refunded)
MarkRefundedKeepsStatus(p) == [p EXCEPT !.amount = 0]

\* (faulty variant: the refund clears the position's owner)
MarkRefundedDisowned(p) == [p EXCEPT !.status = Refunded, !.amount = 0, !.user = ZeroAddress]

MarkRefunded(p) == [p EXCEPT !.status = Refunded, !.amount = 0]

\* (faulty variant: the refund sends the fee back with the amount)
HandleRevertEffectReturnsFee(S, u, i) ==
    LET refundAmount == PositionOf(S, u, i).amount
        S1 == [S EXCEPT !.userPositions[u][i + 1] = MarkRefunded(@),
                        !.statusLog[u][i + 1] = Append(@, Refunded)]
    IN  Pay(S1, u, i, refundAmount + TotalGasFee)

\* (faulty variant: the position is marked, the value is not sent)
HandleRevertEffectNoTransfer(S, u, i) ==
    [S EXCEPT !.userPositions[u][i + 1] = MarkRefunded(@),
              !.statusLog[u][i + 1] = Append(@, Refunded)]

\* lines 135-141: up to and including the value transfer to `user`
HandleRevertEffect(S, u, i) ==
    LET refundAmount == PositionOf(S, u, i).amount
        S1 == [S EXCEPT !.userPositions[u][i + 1] = MarkRefunded(@),
                        !.statusLog[u][i + 1] = Append(@, Refunded)]
    IN  Pay(S1, u, i, refundAmount)

\* lines 144-145: after the transfer succeeded
HandleRevertEvents(S, u, i, txHash, refundAmount) ==
    Emit(Emit(S, u, [name |-> "RevertSuccess", user |-> u, id |-> i, txHash |-> txHash]),
         u, [name |-> "PositionRefunded", user |-> u, id |-> i, amount |-> refundAmount])

\* (faulty variant: a position whose withdrawal is pending can be exited too)
EmergencyErrorAllowsWithdrawn(S, u, i) ==
    IF ~HasPosition(S, u, i) THEN "Panic: array index out of bounds"
    ELSE IF PositionOf(S, u, i).user # u THEN "Not position owner"
    ELSE IF PositionOf(S, u, i).status \notin {Active, Withdrawn} THEN "Position not active"
    ELSE IF S.balance < PositionOf(S, u, i).amount THEN "transfer failed"
    ELSE ""

\* ------------------------------------------------------ emergencyWithdraw
\* (faulty variant: the Active check is missing)
EmergencyErrorNoStatusCheck(S, u, i) ==
    IF ~HasPosition(S, u, i) THEN "Panic: array index out of bounds"
    ELSE IF PositionOf(S, u, i).user # u THEN "Not position owner"
    ELSE IF S.balance < PositionOf(S, u, i).amount THEN "transfer failed"
    ELSE ""

EmergencyError(S, u, i) ==
    IF ~HasPosition(S, u, i) THEN "Panic: array index out of bounds"
    ELSE IF PositionOf(S, u, i).user # u THEN "Not position owner"
    ELSE IF PositionOf(S, u, i).status # Active THEN "Position not active"
    ELSE IF S.balance < PositionOf(S, u, i).amount THEN "transfer failed"
    ELSE ""

\* (faulty variant: the payout is made without the position being closed)
MarkFailedKeepsPosition(p) == p

MarkFailed(p) == [p EXCEPT !.status = Failed, !.amount = 0]

\* (faulty variant: the exit counts as a use of the safety buffer)
EmergencyEffectSetsFlag(S, u, i) ==
    LET amount == PositionOf(S, u, i).amount
        S1 == [S EXCEPT !.userPositions[u][i + 1] = MarkFailed(@),
                        !.statusLog[u][i + 1] = Append(@, Failed),
                        !.hasUsedSafetyBuffer[u] = TRUE]
    IN  Pay(S1, u, i, amount)

\* (faulty variant: the exit is taken off the account's total)
EmergencyEffectDebitsTotal(S, u, i) ==
    LET amount == PositionOf(S, u, i).amount
        S1 == [S EXCEPT !.userPositions[u][i + 1] = MarkFailed(@),
                        !.statusLog[u][i + 1] = Append(@, Failed),
                        !.totalDeposited[u] = @ - amount]
    IN  Pay(S1, u, i, amount)

\* (faulty variant: the position is closed, the value is not sent)
EmergencyEffectNoPayout(S, u, i) ==
    [S EXCEPT !.userPositions[u][i + 1] = MarkFailed(@),
              !.statusLog[u][i + 1] = Append(@, Failed)]

\* the whole call: the requires, then transfer(amount), which reverts if the
\* caller's code does not accept the value within the 2300 gas stipend
EmergencyCallError(S, u, i, accepts) ==
    IF EmergencyError(S, u, i) # "" THEN EmergencyError(S, u, i)
    ELSE IF ~accepts THEN "transfer failed"
    ELSE ""

EmergencyEffect(S, u, i) ==
    LET amount == PositionOf(S, u, i).amount
        S1 == [S EXCEPT !.userPositions[u][i + 1] = MarkFailed(@),
                        !.statusLog[u][i + 1] = Append(@, Failed)]
    IN  Pay(S1, u, i, amount)

\* ----------------------------------------------------------------- views
\* getPosition(user, positionId); the caller checks GetPositionError first
GetPositionError(S, u, i) ==
    IF ~(i < Len(S.userPositions[u])) THEN "Invalid position ID" ELSE ""

GetPosition(S, u, i) == S.userPositions[u][i + 1]

\* ---------------------------------------------------------------- badges
IsEligibleForBadge(S, u) == S.hasUsedSafetyBuffer[u] /\ S.userBadgeTokenId[u] = 0

\* (faulty variant: the eligibility check is missing)
MintErrorNoEligibility(S, u) ==
    IF ~(S.userBadgeTokenId[u] = 0) THEN "Badge already minted"
    ELSE IF S.owners[S.tokenIdCounter] # ZeroAddress THEN "ERC721InvalidSender"
    ELSE ""

MintError(S, u) ==
    IF ~S.hasUsedSafetyBuffer[u] THEN "Not eligible: Must use safety buffer first"
    ELSE IF ~(S.userBadgeTokenId[u] = 0) THEN "Badge already minted"
    ELSE IF S.owners[S.tokenIdCounter] # ZeroAddress THEN "ERC721InvalidSender"
    ELSE ""

\* (faulty variant: the counter is read, not incremented)
MintTokenNoIncrement(S, u) ==
    LET tokenId == S.tokenIdCounter
    IN  [S EXCEPT !.owners[tokenId] = u,
                  !.mintedTo[tokenId] = u]

\* lines 157-158 up to the onERC721Received call: tokenId = _tokenIdCounter++, _mint
MintToken(S, u) ==
    LET tokenId == S.tokenIdCounter
    IN  [S EXCEPT !.tokenIdCounter = @ + 1,
                  !.owners[tokenId] = u,
                  !.mintedTo[tokenId] = u]

\* (faulty variant: the event is emitted, the handle is not written)
RecordBadgeNoHandle(S, u, tokenId) ==
    Emit(S, u, [name |-> "GenesisBadgeMinted", user |-> u, id |-> tokenId])

\* lines 160-162
RecordBadge(S, u, tokenId) ==
    Emit([S EXCEPT !.userBadgeTokenId[u] = tokenId], u,
         [name |-> "GenesisBadgeMinted", user |-> u, id |-> tokenId])

\* (faulty variant: the already-transferred check is missing)
TransferBadgeErrorNoFlagCheck(S, u, tokenId) ==
    IF S.owners[tokenId] = ZeroAddress THEN "ERC721NonexistentToken"
    ELSE IF S.owners[tokenId] # u THEN "Not badge owner"
    ELSE ""

TransferBadgeError(S, u, tokenId) ==
    IF S.owners[tokenId] = ZeroAddress THEN "ERC721NonexistentToken"
    ELSE IF S.owners[tokenId] # u THEN "Not badge owner"
    ELSE IF S.badgeTransferredCrossChain[tokenId] THEN "Already transferred cross-chain"
    ELSE ""

\* (faulty variant: the token is burnt on the home chain)
TransferBadgeEffectBurns(S, u, tokenId, chainId) ==
    Emit([S EXCEPT !.badgeTransferredCrossChain[tokenId] = TRUE,
                   !.owners[tokenId] = ZeroAddress], u,
         [name |-> "BadgeTransferredCrossChain", user |-> u, id |-> tokenId,
          chainId |-> chainId])

TransferBadgeEffect(S, u, tokenId, chainId) ==
    Emit([S EXCEPT !.badgeTransferredCrossChain[tokenId] = TRUE], u,
         [name |-> "BadgeTransferredCrossChain", user |-> u, id |-> tokenId,
          chainId |-> chainId])

\* ERC721.transferFrom by the token's owner
TransferFromError(S, u, to, tokenId) ==
    IF S.owners[tokenId] = ZeroAddress THEN "ERC721NonexistentToken"
    ELSE IF S.owners[tokenId] # u THEN "ERC721InsufficientApproval"
    ELSE ""

\* (faulty variant: the sender's badge handle is cleared with the transfer)
TransferFromEffectClearsHandle(S, u, to, tokenId) ==
    [S EXCEPT !.owners[tokenId] = to, !.userBadgeTokenId[u] = 0]

TransferFromEffect(S, u, to, tokenId) == [S EXCEPT !.owners[tokenId] = to]

\* ------------------------------------------------------------------ calls
\* whether a plain value transfer to u goes through: always for an account
\* without code, as its code decides for a contract
Accepts(u) == IF u \in EOAs THEN {TRUE} ELSE BOOLEAN

Top == stack[Len(stack)]

\* Who can call the tracker now: anybody between transactions; the account
\* whose code is running while a function is interrupted.
CanCall(u) == IF stack = <<>> THEN TRUE ELSE u = Top.sender /\ Top.calls < MaxCalls

\* the stack once the running contract (if any) has made one more call
Called == IF stack = <<>> THEN stack
          ELSE [stack EXCEPT ![Len(stack)].calls = @ + 1]

\* a call that reverts with reason err: every write of it is undone
Fails(err) ==
    /\ err # ""
    /\ UNCHANGED <<storageVars, stack>>

\* a call that runs to its end
Succeeds(T) ==
    /\ Install(T)
    /\ stack' = Called

\* a call interrupted by the external call it makes to a contract: either the
\* called contract calls nothing and returns (the function runs to its end,
\* Done), or it is now running, with the function's frame on the stack
Interrupted(frame, T, Done) ==
    \/ Succeeds(Done)
    \/ /\ Len(stack) < MaxDepth
       /\ Install(T)
       /\ stack' = Append(Called, frame)

RECURSIVE SumOver(_, _)
SumOver(f, D) ==
    IF D = {} THEN 0
    ELSE LET x == CHOOSE y \in D : TRUE IN f[x] + SumOver(f, D \ {x})

NumPositions == SumOver([u \in Accounts |-> Len(userPositions[u])], Accounts)

\* (faulty variant: the constructor does not store its argument)
InitGatewayUnset ==
    /\ gateway = ZeroAddress
    /\ tokenIdCounter = 1
    /\ userPositions = [u \in Accounts |-> <<>>]
    /\ txHashToPositionId = [h \in Hashes |-> 0]
    /\ totalDeposited = [u \in Accounts |-> 0]
    /\ hasUsedSafetyBuffer = [u \in Accounts |-> FALSE]
    /\ userBadgeTokenId = [u \in Accounts |-> 0]
    /\ badgeTransferredCrossChain = [t \in TokenIds |-> FALSE]
    /\ owners = [t \in TokenIds |-> ZeroAddress]
    /\ balance = 0
    /\ events = [u \in Accounts |-> EmptyBag]
    /\ payouts = [u \in Accounts |-> <<>>]
    /\ deposits = [u \in Accounts |-> <<>>]
    /\ statusLog = [u \in Accounts |-> <<>>]
    /\ mintedTo = [t \in TokenIds |-> ZeroAddress]
    /\ now = 0
    /\ stack = <<>>

Init ==
    /\ gateway = GatewayAddress
    /\ tokenIdCounter = 1
    /\ userPositions = [u \in Accounts |-> <<>>]
    /\ txHashToPositionId = [h \in Hashes |-> 0]
    /\ totalDeposited = [u \in Accounts |-> 0]
    /\ hasUsedSafetyBuffer = [u \in Accounts |-> FALSE]
    /\ userBadgeTokenId = [u \in Accounts |-> 0]
    /\ badgeTransferredCrossChain = [t \in TokenIds |-> FALSE]
    /\ owners = [t \in TokenIds |-> ZeroAddress]
    /\ balance = 0
    /\ events = [u \in Accounts |-> EmptyBag]
    /\ payouts = [u \in Accounts |-> <<>>]
    /\ deposits = [u \in Accounts |-> <<>>]
    /\ statusLog = [u \in Accounts |-> <<>>]
    /\ mintedTo = [t \in TokenIds |-> ZeroAddress]
    /\ now = 0
    /\ stack = <<>>

Deposit(u, amount, value) ==
    /\ CanCall(u)
    /\ UNCHANGED <<gateway, now>>
    /\ LET err == DepositError(amount, value)
       IN  IF err # "" THEN Fails(err)
           ELSE /\ Len(userPositions[u]) < MaxPositions
                /\ NumPositions < MaxDeposits
                /\ Succeeds( DepositEffect(Storage, u, amount, value, now))

WithdrawAndTrack(u, i, chainId, gasLimit, value) ==
    /\ CanCall(u)
    /\ UNCHANGED <<gateway, now>>
    /\ LET err == WithdrawError(Storage, u, i, value)
           S1  == WithdrawRequest(Storage, u, i, chainId, gasLimit, value, now)
           err2 == HandleRevertError(S1, u, i)
           S2  == HandleRevertEffect(S1, u, i)
           txHash == PositionOf(S1, u, i).crossChainTxHash
           refundAmount == PositionOf(S1, u, i).amount
       IN  IF err # "" THEN Fails(err)
           ELSE IF ~(gasLimit < GasThreshold) THEN Succeeds( S1)
           ELSE IF err2 # "" THEN Fails(err2)
           ELSE IF u \in Contracts
                THEN Interrupted([fn |-> "withdrawAndTrack", sender |-> u, id |-> i,
                                  txHash |-> txHash, amount |-> refundAmount,
                                  calls |-> 0, saved |-> Storage], S2,
                                 HandleRevertEvents(S2, u, i, txHash, refundAmount))
                ELSE Succeeds(
                              HandleRevertEvents(S2, u, i, txHash, refundAmount))

EmergencyWithdraw(u, i, accepts) ==
    /\ CanCall(u)
    /\ UNCHANGED <<gateway, now>>
    /\ accepts \in Accepts(u)
    /\ LET err == EmergencyCallError(Storage, u, i, accepts)
       IN  IF err # "" THEN Fails(err)
           ELSE Succeeds( EmergencyEffect(Storage, u, i))

MintSafetyBadge(u) ==
    /\ CanCall(u)
    /\ UNCHANGED <<gateway, now>>
    /\ LET err == MintError(Storage, u)
           tokenId == tokenIdCounter
           S1 == MintToken(Storage, u)
       IN  IF tokenId \notin TokenIds THEN FALSE
           ELSE IF err # "" THEN Fails(err)
           ELSE IF u \in Contracts
                THEN Interrupted([fn |-> "mintSafetyBadge", sender |-> u, id |-> tokenId,
                                  txHash |-> ZeroHash, amount |-> 0,
                                  calls |-> 0, saved |-> Storage], S1,
                                 RecordBadge(S1, u, tokenId))
                ELSE Succeeds( RecordBadge(S1, u, tokenId))

TransferBadgeCrossChain(u, tokenId, chainId) ==
    /\ CanCall(u)
    /\ UNCHANGED <<gateway, now>>
    /\ LET err == TransferBadgeError(Storage, u, tokenId)
       IN  IF err # "" THEN Fails(err)
           ELSE Succeeds(
                         TransferBadgeEffect(Storage, u, tokenId, chainId))

TransferFrom(u, to, tokenId) ==
    /\ CanCall(u)
    /\ UNCHANGED <<gateway, now>>
    /\ LET err == TransferFromError(Storage, u, to, tokenId)
       IN  IF err # "" THEN Fails(err)
           ELSE Succeeds( TransferFromEffect(Storage, u, to, tokenId))

\* the contract that was called returns: the interrupted function runs on
CallbackReturns ==
    /\ stack # <<>>
    /\ LET f == Top
       IN  Install(IF f.fn = "withdrawAndTrack"
                   THEN HandleRevertEvents(Storage, f.sender, f.id, f.txHash, f.amount)
                   ELSE RecordBadge(Storage, f.sender, f.id))
    /\ stack' = SubSeq(stack, 1, Len(stack) - 1)
    /\ UNCHANGED <<gateway, now>>

\* (faulty variant: the interrupted function gives up, its writes stay)
CallbackRevertsKeepsWrites ==
    /\ stack # <<>>
    /\ stack' = SubSeq(stack, 1, Len(stack) - 1)
    /\ UNCHANGED <<gateway, storageVars, now>>

\* the contract that was called reverts: so does the interrupted function
CallbackReverts ==
    /\ stack # <<>>
    /\ LET f == Top
       IN  Install(f.saved)
    /\ stack' = SubSeq(stack, 1, Len(stack) - 1)
    /\ UNCHANGED <<gateway, now>>

\* a new block
Tick ==
    /\ stack = <<>>
    /\ now < MaxTime
    /\ now' = now + 1
    /\ UNCHANGED <<gateway, storageVars, stack>>

\* the inputs tried: msg.value short of, equal to and above the amount
ValuesSent(amount) == {v \in {amount - 1, amount, amount + 1} : v >= 0}
GasLimits == {GasThreshold - 1, GasThreshold}
FeesSent  == {TotalGasFee - 1, TotalGasFee}

Next ==
    \/ \E u \in Accounts, amount \in Amounts : \E value \in ValuesSent(amount) :
          Deposit(u, amount, value)
    \/ \E u \in Accounts, i \in PositionIds, c \in DestChains, g \in GasLimits, v \in FeesSent :
          WithdrawAndTrack(u, i, c, g, v)
    \/ \E u \in Accounts, i \in PositionIds, accepts \in BOOLEAN : EmergencyWithdraw(u, i, accepts)
    \/ \E u \in Accounts : MintSafetyBadge(u)
    \/ \E u \in Accounts, t \in TokenIds, c \in DestChains : TransferBadgeCrossChain(u, t, c)
    \/ \E u \in Accounts, to \in Accounts, t \in TokenIds : TransferFrom(u, to, t)
    \/ CallbackReturns
    \/ CallbackReverts
    \/ Tick

Spec == Init /\ [][Next]_vars

\* The fairness under which "eventually" is read: whatever can change the
\* state is eventually done, and so is every call on every position.
FairSpec ==
    /\ Spec
    /\ WF_vars(Next)
    /\ WF_vars(CallbackReturns)
    /\ \A u \in Accounts, i \in PositionIds :
          /\ WF_vars(EmergencyWithdraw(u, i, TRUE))
          /\ WF_vars(\E c \in DestChains, g \in GasLimits : WithdrawAndTrack(u, i, c, g, TotalGasFee))

\* ------------------------------------------------------------ properties
\* The storage as of the last finished transaction: what the interrupted
\* functions come back to if the outermost one reverts.
Committed == IF stack = <<>> THEN Storage ELSE stack[1].saved

PositionKeys(S, u) == DOMAIN S.userPositions[u]
StatusOf(S, u, k)  == S.userPositions[u][k].status
MintedTo(S, u)     == {t \in TokenIds : S.mintedTo[t] = u}
Emitted(S, u, name, id) ==
    \E e \in BagToSet(S.events[u]) : e.name = name /\ e.user = u /\ e.id = id

\* C1: for every position, over any sequence of calls (re-entrant calls from
\* inside the refund's value transfer included), the value paid out for it
\* never exceeds the amount it was deposited with, and it is paid out at
\* most once (by the refund or by emergencyWithdraw, never both, never twice).
C1_SinglePayment ==
    \A u \in Accounts : \A k \in DOMAIN payouts[u] :
        /\ Len(payouts[u][k]) <= 1
        /\ SumSeq(payouts[u][k]) <= deposits[u][k]

\* a refund's value transfer is under way, and the owner has used it to
\* force-exit its other position: both positions are paid, once each
C1_Witness ==
    /\ stack # <<>>
    /\ Top.fn = "withdrawAndTrack"
    /\ payouts[Top.sender][Top.id + 1] # <<>>
    /\ \E k \in DOMAIN Top.saved.payouts[Top.sender] :
          /\ k # Top.id + 1
          /\ Top.saved.payouts[Top.sender][k] = <<>>
          /\ payouts[Top.sender][k] # <<>>

AllowedChange ==
    {<<Active, Withdrawn>>, <<Withdrawn, Refunded>>, <<Withdrawn, Failed>>, <<Active, Failed>>}

StatusLogOK(S) ==
    \A u \in Accounts : \A k \in PositionKeys(S, u) :
        LET L == S.statusLog[u][k]
        IN  /\ L[1] = Active
            /\ L[Len(L)] = StatusOf(S, u, k)
            /\ \A j \in 1 .. (Len(L) - 1) :
                  /\ <<L[j], L[j + 1]>> \in AllowedChange
                  /\ L[j] \notin {Refunded, Failed}
            /\ Cardinality({j \in 1 .. Len(L) : L[j] \in {Refunded, Failed}}) <= 1

\* what one transaction makes of a position's status: one allowed change, or
\* the request and the refund together
CommittedChangeOK(u, k) ==
    LET before == StatusOf(Committed, u, k)
        after  == StatusOf(Committed', u, k)
    IN  \/ after = before
        \/ <<before, after>> \in AllowedChange
        \/ <<before, after>> = <<Active, Refunded>>

\* C2: every write of a position's status is one of Active->Withdrawn,
\* Withdrawn->Refunded, Withdrawn->Failed or Active->Failed; the status of a
\* Refunded or Failed position is never written again, a position reaches at
\* most one terminal outcome, and between transactions the status changes
\* accordingly.
C2_StateMachine ==
    [][/\ StatusLogOK(Storage')
       /\ \A u \in Accounts : \A k \in PositionKeys(Committed, u) :
             /\ k \in PositionKeys(Committed', u)
             /\ CommittedChangeOK(u, k)]_vars

\* one account has had a position refunded and another position force-exited
C2_Witness ==
    /\ stack = <<>>
    /\ \E u \in Accounts : \E k1, k2 \in DOMAIN statusLog[u] :
          /\ statusLog[u][k1] = <<Active, Withdrawn, Refunded>>
          /\ statusLog[u][k2] = <<Active, Failed>>

Holding(u, i) ==
    /\ stack = <<>>
    /\ HasPosition(Storage, u, i)
    /\ PositionOf(Storage, u, i).status = Withdrawn
    /\ PositionOf(Storage, u, i).amount > 0

Resolved(u, i) ==
    /\ HasPosition(Storage, u, i)
    /\ \/ PositionOf(Storage, u, i).status \in {Refunded, Failed}
       \/ payouts[u][i + 1] # <<>>

\* C3: funds are never stuck: every position left in Withdrawn with its
\* amount is eventually paid back to its owner or resolved terminally by
\* the operations available.
C3_NeverStuck ==
    \A u \in Accounts, i \in PositionIds : Holding(u, i) ~> Resolved(u, i)

\* position i of u has been refunded: Refunded, the deposited amount paid to
\* its owner once, RevertSuccess emitted, the account's flag set
RefundDone(u, i) ==
    /\ PositionOf(Storage, u, i).status = Refunded
    /\ PositionOf(Storage, u, i).user = u
    /\ payouts[u][i + 1] = <<deposits[u][i + 1]>>
    /\ deposits[u][i + 1] > 0
    /\ Emitted(Storage, u, "RevertSuccess", i)
    /\ hasUsedSafetyBuffer[u]

\* the step is a withdrawAndTrack of u that passes its checks and runs to
\* its end in one step
WithdrawCallEnds(u, i, c, g, v) ==
    /\ WithdrawError(Storage, u, i, v) = ""
    /\ WithdrawAndTrack(u, i, c, g, v)
    /\ Len(stack') = Len(stack)
    /\ storageVars' # storageVars

\* the step is the return of the owner's code to the withdrawAndTrack of u
\* that is refunding position i
RefundCallReturns(u, i) ==
    /\ stack # <<>>
    /\ Top.fn = "withdrawAndTrack" /\ Top.sender = u /\ Top.id = i
    /\ CallbackReturns

\* C4: a successful withdrawAndTrack with gasLimit < 150000 and the fee paid,
\* on an Active position of the caller with amount a > 0, ends with the
\* position Refunded, exactly a paid to its owner, RevertSuccess emitted for
\* the user and the position, and the account's flag set.
C4_RefundPath ==
    [][\A u \in Accounts, i \in PositionIds :
          /\ \A c \in DestChains, g \in GasLimits, v \in FeesSent :
                (g < GasThreshold /\ v >= TotalGasFee /\ WithdrawCallEnds(u, i, c, g, v))
                => /\ RefundDone(u, i)'
                   /\ balance' = balance + v - PositionOf(Storage, u, i).amount
          /\ RefundCallReturns(u, i)
                => /\ RefundDone(u, i)'
                   /\ payouts'[u][i + 1] = <<PositionOf(Top.saved, u, i).amount>>]_vars

\* a refund has ended: position Refunded, its amount paid, the event emitted
C4_Witness ==
    /\ stack = <<>>
    /\ \E u \in Accounts : \E i \in PositionIds :
          /\ HasPosition(Storage, u, i)
          /\ RefundDone(u, i)

\* C5: after a refund through the low-gas path, getPosition(user, positionId)
\* reports status Refunded (2), user the depositor, and amount the amount
\* originally deposited.
C5_RefundedView ==
    \A u \in Accounts : \A i \in PositionIds :
        (/\ stack = <<>>
         /\ GetPositionError(Storage, u, i) = ""
         /\ statusLog[u][i + 1] = <<Active, Withdrawn, Refunded>>)
        => /\ GetPosition(Storage, u, i).status = 2
           /\ GetPosition(Storage, u, i).user = u
           /\ GetPosition(Storage, u, i).amount = deposits[u][i + 1]

HasRefund(S, u)    == \E k \in PositionKeys(S, u) : StatusOf(S, u, k) = Refunded
HasRequested(S, u) == \E k \in PositionKeys(S, u) : StatusOf(S, u, k) \in {Withdrawn, Refunded}

\* C7 (as claimed): an account is badge-eligible, and mintSafetyBadge can
\* succeed for it, only if one of its positions was resolved by a refund; an
\* account whose only withdrawals used gasLimit >= 150000 is not eligible.
C7_GatedOnRefund ==
    \A u \in Accounts :
        (IsEligibleForBadge(Storage, u) \/ MintError(Storage, u) = "") => HasRefund(Storage, u)

\* C7 (amended): an account is badge-eligible, and mintSafetyBadge can succeed
\* for it, only if one of its positions has been through a successful
\* withdrawAndTrack (Withdrawn or Refunded); an account that has not minted
\* and whose only withdrawals used gasLimit >= 150000 is eligible.
C7_GatedOnRequest ==
    \A u \in Accounts :
        /\ (IsEligibleForBadge(Storage, u) \/ MintError(Storage, u) = "") => HasRequested(Storage, u)
        /\ (HasRequested(Storage, u) /\ ~HasRefund(Storage, u) /\ MintedTo(Storage, u) = {})
              => IsEligibleForBadge(Storage, u)

\* an account with a parked withdrawal and no refund, eligible for the badge
C7_Witness ==
    /\ stack = <<>>
    /\ \E u \in Accounts :
          /\ HasRequested(Storage, u)
          /\ ~HasRefund(Storage, u)
          /\ IsEligibleForBadge(Storage, u)
          /\ MintError(Storage, u) = ""

EligibleOrMinted(S, u) == IsEligibleForBadge(S, u) \/ MintedTo(S, u) # {}

\* C8: once an account has made a successful withdrawAndTrack (whatever the
\* gas limit, refund or not) isEligibleForBadge(account) is true, and it
\* stays true from transaction to transaction until the account mints.
C8_EligibleAfterWithdrawal ==
    [][\A u \in Accounts :
          /\ HasRequested(Committed', u) => EligibleOrMinted(Committed', u)
          /\ IsEligibleForBadge(Committed, u) => EligibleOrMinted(Committed', u)]_vars

\* both kinds of withdrawal have made their account eligible, nothing minted
C8_Witness ==
    /\ stack = <<>>
    /\ \E u, w \in Accounts :
          /\ \E k \in PositionKeys(Storage, u) : statusLog[u][k] = <<Active, Withdrawn>>
          /\ \E k \in PositionKeys(Storage, w) : statusLog[w][k] = <<Active, Withdrawn, Refunded>>
          /\ ~HasRefund(Storage, u)
          /\ IsEligibleForBadge(Storage, u) /\ IsEligibleForBadge(Storage, w)
          /\ \A t \in TokenIds : mintedTo[t] = ZeroAddress

\* C9: at most one badge is ever minted to an account, a mintSafetyBadge made
\* by the recipient from inside onERC721Received included.
C9_OneBadgePerAccount ==
    stack = <<>> => \A u \in Accounts : Cardinality(MintedTo(Storage, u)) <= 1

\* C10: once userBadgeTokenId[account] is non-zero it never changes (the
\* undoing of a call that reverts aside).
C10_BadgeHandleImmutable ==
    [][CallbackReverts \/
       \A u \in Accounts :
          userBadgeTokenId[u] # 0 => userBadgeTokenId'[u] = userBadgeTokenId[u]]_vars

\* how many times BadgeTransferredCrossChain was emitted for tokenId
Relocations(S, tokenId) ==
    SumOver([x \in Accounts \X DestChains |->
                CopiesIn([name |-> "BadgeTransferredCrossChain", user |-> x[1],
                          id |-> tokenId, chainId |-> x[2]], S.events[x[1]])],
            Accounts \X DestChains)

\* tokenId is flagged: every transferBadgeCrossChain for it fails, the one
\* made by its owner with "Already transferred cross-chain"
RelocationClosed(S, tokenId) ==
    \A u \in Accounts :
        /\ TransferBadgeError(S, u, tokenId) # ""
        /\ S.owners[tokenId] = u
              => TransferBadgeError(S, u, tokenId) = "Already transferred cross-chain"

\* C11: for every badge token transferBadgeCrossChain succeeds at most once,
\* whoever owns the token at the time; badgeTransferredCrossChain[tokenId]
\* never goes from true back to false (the undoing of a call that reverts
\* aside, and never from one transaction to the next); once it is true every
\* transferBadgeCrossChain for the token fails (the owner's with "Already
\* transferred cross-chain") and changes nothing.
C11_RelocatedOnce ==
    /\ [](\A t \in TokenIds :
            /\ Relocations(Storage, t) <= 1
            /\ badgeTransferredCrossChain[t] <=> Relocations(Storage, t) = 1
            /\ badgeTransferredCrossChain[t] => RelocationClosed(Storage, t))
    /\ [][\A t \in TokenIds :
            /\ CallbackReverts \/ (badgeTransferredCrossChain[t] => badgeTransferredCrossChain'[t])
            /\ Committed.badgeTransferredCrossChain[t] => Committed'.badgeTransferredCrossChain[t]
            /\ \A u \in Accounts, c \in DestChains :
                  (badgeTransferredCrossChain[t] /\ TransferBadgeCrossChain(u, t, c))
                  => UNCHANGED storageVars]_vars

\* a token relocated by the account it was minted to, now owned by another
C11_Witness ==
    /\ stack = <<>>
    /\ \E t \in TokenIds :
          /\ badgeTransferredCrossChain[t]
          /\ Relocations(Storage, t) = 1
          /\ owners[t] \notin {ZeroAddress, mintedTo[t]}
          /\ TransferBadgeError(Storage, owners[t], t) = "Already transferred cross-chain"

\* position i of u has had a withdrawal requested
WasRequested(log) == Len(log) >= 2 /\ log[2] = Withdrawn
Requested(S, u, i) == WasRequested(S.statusLog[u][i + 1])

\* C12 (as claimed): emergencyWithdraw called by the owner on an existing
\* position succeeds if and only if the position's status is Active.
C12_ExitIffActive ==
    \A u \in Accounts, i \in PositionIds : \A accepts \in Accepts(u) :
        (HasPosition(Storage, u, i) /\ PositionOf(Storage, u, i).user = u)
        => (EmergencyCallError(Storage, u, i, accepts) = ""
              <=> PositionOf(Storage, u, i).status = Active)

\* the outcome of emergencyWithdraw in storage S
ExitGuard(S) ==
    \A u \in Accounts, i \in PositionIds : \A accepts \in Accepts(u) :
        (HasPosition(S, u, i) /\ PositionOf(S, u, i).user = u)
        => /\ EmergencyCallError(S, u, i, accepts) = ""
                 <=> (PositionOf(S, u, i).status = Active /\ accepts)
           /\ Requested(S, u, i) => EmergencyCallError(S, u, i, accepts) # ""

\* C12 (amended): emergencyWithdraw called by the owner on an existing
\* position succeeds if and only if the position's status is Active and the
\* caller accepts the value transfer; after a success the position's amount
\* is 0, its status is Failed, and exactly the pre-exit amount has been paid
\* to the caller once; once a withdrawal has been requested for a position,
\* emergencyWithdraw on it fails in every later state.
C12_ExitIffActiveAndAccepted ==
    /\ []ExitGuard(Storage)
    /\ [][\A u \in Accounts : \A k \in DOMAIN userPositions[u] :
            /\ (EmergencyCallError(Storage, u, k - 1, TRUE) = "" /\ EmergencyWithdraw(u, k - 1, TRUE))
               => /\ userPositions'[u][k].amount = 0
                  /\ userPositions'[u][k].status = Failed
                  /\ payouts[u][k] = <<>>
                  /\ payouts'[u][k] = <<userPositions[u][k].amount>>
                  /\ balance' = balance - userPositions[u][k].amount
            /\ (WasRequested(statusLog[u][k]) /\ ~CallbackReverts)
               => WasRequested(statusLog'[u][k])
            /\ (k \in PositionKeys(Committed, u) /\ WasRequested(Committed.statusLog[u][k]))
               => WasRequested(Committed'.statusLog[u][k])]_vars

\* a contract has force-exited one position and requested the withdrawal of
\* another, on which emergencyWithdraw now fails
C12_Witness ==
    /\ stack = <<>>
    /\ \E u \in Contracts : \E i, j \in PositionIds :
          /\ HasPosition(Storage, u, i) /\ HasPosition(Storage, u, j)
          /\ statusLog[u][i + 1] = <<Active, Failed>>
          /\ payouts[u][i + 1] = <<deposits[u][i + 1]>>
          /\ PositionOf(Storage, u, j).status = Withdrawn
          /\ EmergencyCallError(Storage, u, j, TRUE) = "Position not active"

\* how many times RevertSuccess was emitted with reference txHash
Resolutions(S, txHash) ==
    SumOver([x \in Accounts \X PositionIds |->
                CopiesIn([name |-> "RevertSuccess", user |-> x[1], id |-> x[2],
                          txHash |-> txHash], S.events[x[1]])],
            Accounts \X PositionIds)

\* position k of u has been through _handleRevert
RevertResolved(S, u, k) == S.statusLog[u][k][Len(S.statusLog[u][k])] = Refunded

\* C13: once a position has been resolved by the revert path, a further run
\* of _handleRevert on it is turned away by the status == Withdrawn check,
\* every call that could lead there fails, the position's amount and status
\* are not altered again, it is not paid a second time, and no reference
\* has more than one resolution accepted.
C13_NoSecondResolution ==
    /\ [](/\ \A u \in Accounts : \A k \in PositionKeys(Storage, u) :
                RevertResolved(Storage, u, k)
                => /\ HandleRevertError(Storage, u, k - 1) = "Invalid state for revert"
                   /\ \A v \in FeesSent : WithdrawError(Storage, u, k - 1, v) # ""
                   /\ EmergencyError(Storage, u, k - 1) # ""
                   /\ Len(payouts[u][k]) = 1
                   /\ Resolutions(Storage, userPositions[u][k].crossChainTxHash) <= 1
           /\ \A h \in Hashes : Resolutions(Storage, h) <= 1)
    /\ [][\A u \in Accounts : \A k \in PositionKeys(Storage, u) :
            /\ (RevertResolved(Storage, u, k) /\ ~CallbackReverts)
               => /\ userPositions'[u][k] = userPositions[u][k]
                  /\ payouts'[u][k] = payouts[u][k]
                  /\ statusLog'[u][k] = statusLog[u][k]
            /\ (k \in PositionKeys(Committed, u) /\ RevertResolved(Committed, u, k))
               => /\ Committed'.userPositions[u][k] = Committed.userPositions[u][k]
                  /\ Committed'.payouts[u][k] = Committed.payouts[u][k]]_vars

\* the owner of a position that is being refunded has called the contract
\* again from the code that receives the refund; the position was paid once
C13_Witness ==
    /\ stack # <<>>
    /\ Top.fn = "withdrawAndTrack"
    /\ Top.calls = 1
    /\ RevertResolved(Storage, Top.sender, Top.id + 1)
    /\ payouts[Top.sender][Top.id + 1] = <<Top.amount>>
    /\ Top.amount > 0

\* the step takes position k of u out of Withdrawn
LeavesWithdrawn(u, k) ==
    /\ Len(statusLog'[u][k]) >= 3
    /\ Len(statusLog[u][k]) < 3

\* C14: a position leaves Withdrawn only in a call made by the configured
\* gateway address: a call by any other account that would resolve a
\* withdrawal fails and leaves the state unchanged.
C14_GatewayResolves ==
    [][\A u \in Accounts : \A k \in DOMAIN statusLog[u] :
          \A c \in DestChains, g \in GasLimits, v \in FeesSent :
             (WithdrawAndTrack(u, k - 1, c, g, v) /\ LeavesWithdrawn(u, k))
             => u = gateway]_vars

\* position i of u passes the position checks of withdrawAndTrack
ValidActive(S, u, i) ==
    /\ HasPosition(S, u, i)
    /\ PositionOf(S, u, i).user = u
    /\ PositionOf(S, u, i).status = Active
    /\ PositionOf(S, u, i).amount > 0

\* gas limits the estimate is asked for, fees the check is tried with
EstimateInputs == GasLimits \cup {0, 200000}
FeesTried == FeesSent \cup {0, BASE_GAS_FEE, TotalGasFee + 1}

\* C15: estimateWithdrawGas returns (baseFee, baseFee + baseFee * 30 / 100)
\* whatever the gas limit, its second value is the fee withdrawAndTrack
\* requires, and for every Active position of the caller with amount > 0
\* withdrawAndTrack passes its checks if and only if msg.value is at least
\* that value.
C15_EstimateIsEnforced ==
    \A g \in EstimateInputs :
        /\ EstimateWithdrawGas(g) =
              <<BASE_GAS_FEE, BASE_GAS_FEE + (BASE_GAS_FEE * 30) \div 100>>
        /\ EstimateWithdrawGas(g)[2] = TotalGasFee
        /\ \A u \in Accounts, i \in PositionIds :
              ValidActive(Storage, u, i)
              => \A v \in FeesTried :
                    WithdrawError(Storage, u, i, v) = "" <=> v >= EstimateWithdrawGas(g)[2]

\* a withdrawal was accepted with exactly the estimated fee, and the account
\* has another position for which the fee will be asked
C15_Witness ==
    /\ stack = <<>>
    /\ \E u \in Accounts : \E i, j \in PositionIds :
          /\ ValidActive(Storage, u, i)
          /\ HasPosition(Storage, u, j)
          /\ statusLog[u][j + 1] = <<Active, Withdrawn>>
          /\ balance = EstimateWithdrawGas(GasThreshold)[2]
                         + PositionOf(Storage, u, i).amount + PositionOf(Storage, u, j).amount

\* C16: the fee required is 1.3 times the base fee (1300 for the base fee of
\* 1000, in units of 10^-6 ether: 0.0013 for 0.001); on an Active position
\* of the caller with amount > 0, withdrawAndTrack with one unit less fails
\* with "Insufficient gas fee sent" (and so changes nothing), and with
\* exactly the fee it passes every check, records the request, and the
\* refund that a low gas limit sets off passes its checks too.
C16_FeeBoundary ==
    /\ BASE_GAS_FEE = 1000
    /\ TotalGasFee = 1300
    /\ 10 * TotalGasFee = 13 * BASE_GAS_FEE
    /\ \A u \in Accounts, i \in PositionIds :
          ValidActive(Storage, u, i)
          => /\ WithdrawError(Storage, u, i, TotalGasFee - 1) = "Insufficient gas fee sent"
             /\ WithdrawError(Storage, u, i, TotalGasFee) = ""
             /\ \A c \in DestChains, g \in GasLimits :
                   LET S1 == WithdrawRequest(Storage, u, i, c, g, TotalGasFee, now)
                   IN  /\ PositionOf(S1, u, i).status = Withdrawn
                       /\ S1.balance = balance + TotalGasFee
                       /\ HandleRevertError(S1, u, i) = ""

\* with exactly the fee sent one position was refunded, and another position
\* is Active: the contract holds the fee and that position's amount
C16_Witness ==
    /\ stack = <<>>
    /\ \E u, w \in Accounts : \E i, j \in PositionIds :
          /\ HasPosition(Storage, u, i)
          /\ statusLog[u][i + 1] = <<Active, Withdrawn, Refunded>>
          /\ ValidActive(Storage, w, j)
          /\ balance = TotalGasFee + PositionOf(Storage, w, j).amount

\* the step is a deposit(amount) of u with msg.value = value that passes
\* its checks
DepositCallEnds(u, amount, value) ==
    /\ Len(userPositions'[u]) = Len(userPositions[u]) + 1
    /\ DepositError(amount, value) = ""
    /\ Deposit(u, amount, value)

\* C17: deposit(amount) with amount > 0 and msg.value >= amount appends one
\* position at index (previous length) of the caller's list, with that
\* amount, user the caller, status Active and a zero reference, adds amount
\* to totalDeposited[caller], and leaves every existing position unchanged;
\* with amount = 0 or msg.value < amount it fails (and so changes nothing).
C17_DepositAppends ==
    /\ [](\A amount \in Amounts \cup {MaxAmount + 1} : \A value \in ValuesSent(amount) :
            /\ DepositError(amount, value) = "" <=> (amount > 0 /\ value >= amount)
            /\ amount = 0 => DepositError(amount, value) = "Amount must be greater than 0"
            /\ (amount > 0 /\ value < amount)
                  => DepositError(amount, value) = "Insufficient value sent")
    /\ [][\A u \in Accounts, amount \in Amounts : \A value \in ValuesSent(amount) :
            DepositCallEnds(u, amount, value)
            => /\ amount > 0 /\ value >= amount
               /\ userPositions'[u] =
                     Append(userPositions[u],
                            [amount |-> amount, user |-> u, timestamp |-> now,
                             status |-> Active, crossChainTxHash |-> ZeroHash])
               /\ totalDeposited'[u] = totalDeposited[u] + amount
               /\ \A w \in Accounts \ {u} :
                     /\ userPositions'[w] = userPositions[w]
                     /\ totalDeposited'[w] = totalDeposited[w]
               /\ balance' = balance + value
               /\ events'[u] = events[u] (+) SetToBag({[name |-> "PositionCreated", user |-> u,
                                                        id |-> Len(userPositions[u]),
                                                        amount |-> amount]})]_vars

\* an account has made a second deposit: position 1 next to position 0
C17_Witness ==
    /\ stack = <<>>
    /\ \E u \in Accounts :
          /\ Len(userPositions[u]) = 2
          /\ userPositions[u][2].status = Active
          /\ userPositions[u][2].user = u
          /\ userPositions[u][1].status # Active
          /\ totalDeposited[u] = deposits[u][1] + deposits[u][2]
          /\ Emitted(Storage, u, "PositionCreated", 1)

\* the stored amounts of the Active positions of u
ActiveStored(S, u) ==
    SumOver([k \in PositionKeys(S, u) |->
                IF StatusOf(S, u, k) = Active THEN S.userPositions[u][k].amount ELSE 0],
            PositionKeys(S, u))

\* the amounts deposited into the positions of u that have left Active
MovedOriginal(S, u) ==
    SumOver([k \in PositionKeys(S, u) |->
                IF StatusOf(S, u, k) # Active THEN S.deposits[u][k] ELSE 0],
            PositionKeys(S, u))

\* C18: in every reachable state, for every account, the stored amounts of
\* its Active positions plus the original amounts of its positions that
\* have left Active (Withdrawn, Refunded, Failed) add up to
\* totalDeposited[account].
C18_Conservation ==
    \A u \in Accounts :
        ActiveStored(Storage, u) + MovedOriginal(Storage, u) = totalDeposited[u]

\* an account with a position in each group: one Active, one that has left
C18_Witness ==
    \E u \in Accounts :
        /\ ActiveStored(Storage, u) > 0
        /\ MovedOriginal(Storage, u) > 0
        /\ \E k \in PositionKeys(Storage, u) : StatusOf(Storage, u, k) \in {Refunded, Failed}

\* C19: a successful withdrawAndTrack with gasLimit >= 150000 (150000
\* itself included) and msg.value at least the estimated fee, on an Active
\* position of the caller, leaves the position Withdrawn with its amount
\* unchanged, stores a non-zero crossChainTxHash on it, records
\* txHashToPositionId[crossChainTxHash] = positionId, emits
\* WithdrawInitiated, and pays nothing back to the owner.
C19_HappyPath ==
    [][\A u \in Accounts : \A k \in DOMAIN userPositions[u] :
          \A c \in DestChains, g \in GasLimits, v \in FeesSent :
             (/\ g >= GasThreshold
              /\ v >= EstimateWithdrawGas(g)[2]
              /\ k \in DOMAIN userPositions'[u]
              /\ userPositions'[u][k] # userPositions[u][k]
              /\ WithdrawCallEnds(u, k - 1, c, g, v))
             => LET h == userPositions'[u][k].crossChainTxHash
                IN  /\ userPositions[u][k].status = Active
                    /\ userPositions'[u][k].status = Withdrawn
                    /\ userPositions'[u][k].amount = userPositions[u][k].amount
                    /\ userPositions'[u][k].amount > 0
                    /\ userPositions'[u][k].user = u
                    /\ h # ZeroHash
                    /\ h = TxHash(u, k - 1, now, c)
                    /\ txHashToPositionId'[h] = k - 1
                    /\ events'[u] (-) events[u] \sqsubseteq
                          SetToBag({[name |-> "WithdrawInitiated", user |-> u, id |-> k - 1, txHash |-> h],
                                    [name |-> "SafetyBufferUsed", user |-> u, id |-> k - 1]})
                    /\ BagIn([name |-> "WithdrawInitiated", user |-> u, id |-> k - 1, txHash |-> h],
                             events'[u] (-) events[u])
                    /\ payouts' = payouts
                    /\ balance' = balance + v]_vars

\* position 1 of an account is Withdrawn with the amount it was deposited
\* with, nothing paid for it, and its reference leads back to it
C19_Witness ==
    /\ stack = <<>>
    /\ \E u \in Accounts :
          /\ HasPosition(Storage, u, 1)
          /\ statusLog[u][2] = <<Active, Withdrawn>>
          /\ userPositions[u][2].amount = deposits[u][2]
          /\ payouts[u][2] = <<>>
          /\ userPositions[u][2].crossChainTxHash # ZeroHash
          /\ txHashToPositionId[userPositions[u][2].crossChainTxHash] = 1
          /\ \E e \in BagToSet(events[u]) : e.name = "WithdrawInitiated" /\ e.id = 1

\* the step is the owner's code rejecting the refund of position i of u:
\* the call of line 141 returns false and line 142 reverts
RefundRejected(u, i) ==
    /\ stack # <<>>
    /\ Top.fn = "withdrawAndTrack" /\ Top.sender = u /\ Top.id = i
    /\ CallbackReverts

\* C20 (as claimed): if the owner rejects the refund payout the operation
\* fails as a whole: the position is not marked Refunded, its amount is not
\* zeroed, and it remains in status Withdrawn.
C20_RemainsWithdrawn ==
    [][\A u \in Accounts, i \in PositionIds :
          RefundRejected(u, i)
          => /\ userPositions'[u][i + 1].status # Refunded
             /\ userPositions'[u][i + 1].amount = Top.amount
             /\ userPositions'[u][i + 1].status = Withdrawn]_vars

\* C20 (amended): if the owner rejects the refund payout the operation
\* fails as a whole, the request made by the same call included: the
\* position is not marked Refunded, its amount is not zeroed, nothing is
\* paid and no fee is kept, and the position is back in status Active with
\* no reference, so that the withdrawal can be requested again.
C20_BackToActive ==
    [][\A u \in Accounts, i \in PositionIds :
          RefundRejected(u, i)
          => /\ userPositions[u][i + 1].status = Refunded
             /\ userPositions[u][i + 1].amount = 0
             /\ userPositions'[u][i + 1].status # Refunded
             /\ userPositions'[u][i + 1].amount = Top.amount
             /\ Top.amount > 0
             /\ userPositions'[u][i + 1].status = Active
             /\ userPositions'[u][i + 1].crossChainTxHash = ZeroHash
             /\ userPositions'[u][i + 1] = PositionOf(Top.saved, u, i)
             /\ payouts'[u][i + 1] = <<>>
             /\ balance' = Top.saved.balance
             /\ WithdrawError(Storage', u, i, TotalGasFee) = ""]_vars

\* the refund of a contract's position has reached its value transfer: the
\* position is marked, and the owner's code has yet to accept or reject
C20_Witness ==
    /\ stack # <<>>
    /\ Top.fn = "withdrawAndTrack"
    /\ Top.calls = 0
    /\ Top.sender \in Contracts
    /\ PositionOf(Storage, Top.sender, Top.id).status = Refunded
    /\ PositionOf(Storage, Top.sender, Top.id).amount = 0
    /\ PositionOf(Top.saved, Top.sender, Top.id).status = Active
    /\ PositionOf(Top.saved, Top.sender, Top.id).amount = Top.amount

\* the positions that carry a reference: <<account, index>>
Referenced(S) ==
    {x \in Accounts \X (1 .. MaxPositions) :
        /\ x[2] \in PositionKeys(S, x[1])
        /\ S.userPositions[x[1]][x[2]].crossChainTxHash # ZeroHash}

\* C21: in every reachable state no two distinct positions, of the same or
\* of different accounts, carry the same non-zero crossChainTxHash, also
\* when they were requested at the same timestamp; the reference stored is
\* the digest of (caller, positionId, timestamp, chain) of the request.
C21_UniqueReference ==
    /\ \A x, y \in Referenced(Storage) :
          x # y => userPositions[x[1]][x[2]].crossChainTxHash
                     # userPositions[y[1]][y[2]].crossChainTxHash
    /\ \A x \in Referenced(Storage) :
          /\ \E t \in Times, c \in DestChains :
                userPositions[x[1]][x[2]].crossChainTxHash = TxHash(x[1], x[2] - 1, t, c)
          /\ txHashToPositionId[userPositions[x[1]][x[2]].crossChainTxHash] = x[2] - 1

\* two positions hold references taken in the same block for the same chain
C21_Witness ==
    \E x, y \in Referenced(Storage) :
        /\ x # y
        /\ userPositions[x[1]][x[2]].crossChainTxHash[3]
              = userPositions[y[1]][y[2]].crossChainTxHash[3]
        /\ userPositions[x[1]][x[2]].crossChainTxHash[4]
              = userPositions[y[1]][y[2]].crossChainTxHash[4]

\* C22: in every reachable state gateway is the address the constructor was
\* given, and no step changes it.
C22_GatewayFixed ==
    /\ [](gateway = GatewayAddress)
    /\ [][gateway' = gateway]_vars

\* every kind of operation has run: a refund, a force exit, a mint and a
\* badge relocation, and the gateway is the one given at construction
C22_Witness ==
    /\ stack = <<>>
    /\ gateway = GatewayAddress
    /\ \E u \in Accounts : HasRefund(Storage, u)
    /\ \E u \in Accounts : \E k \in PositionKeys(Storage, u) : StatusOf(Storage, u, k) = Failed
    /\ \E t \in TokenIds : badgeTransferredCrossChain[t] /\ owners[t] # mintedTo[t]

\* The calls the contract has made to address `to`. Its only external calls
\* are the value transfers of lines 141 and 223, to the owner of the position
\* paid, and onERC721Received of _safeMint, to the minter.
OutboundCalls(S, to) ==
    IF to \in Accounts
    THEN SumOver([k \in PositionKeys(S, to) |-> Len(S.payouts[to][k])], PositionKeys(S, to))
         + Cardinality(MintedTo(S, to) \cap {t \in TokenIds : to \in Contracts})
    ELSE 0

\* the withdrawal requests that have succeeded
Requests(S) ==
    {x \in Accounts \X (1 .. MaxPositions) :
        x[2] \in PositionKeys(S, x[1]) /\ WasRequested(S.statusLog[x[1]][x[2]])}

\* C23: every successful withdrawal request has handed one dispatch to the
\* gateway (with the destination chain, the destination address and the gas
\* budget), and a failed request none: between transactions the contract
\* has called the gateway once per successful request.
C23_OneDispatchPerRequest ==
    stack = <<>> => OutboundCalls(Storage, gateway) = Cardinality(Requests(Storage))

\* every call named fails in storage S
FailingCallsFail(S) ==
    /\ \A amount \in Amounts : \A value \in ValuesSent(amount) :
          (amount = 0 \/ value < amount) => DepositError(amount, value) # ""
    /\ \A u \in Accounts, i \in PositionIds :
          /\ \A v \in FeesTried :
                (~ValidActive(S, u, i) \/ v < TotalGasFee) => WithdrawError(S, u, i, v) # ""
          /\ \A accepts \in BOOLEAN :
                (~ValidActive(S, u, i) \/ ~accepts) => EmergencyCallError(S, u, i, accepts) # ""
    /\ \A u \in Accounts :
          (~S.hasUsedSafetyBuffer[u] \/ S.userBadgeTokenId[u] # 0) => MintError(S, u) # ""
    /\ \A u \in Accounts, t \in TokenIds :
          (S.owners[t] # u \/ S.badgeTransferredCrossChain[t]) => TransferBadgeError(S, u, t) # ""

\* C24: a call that fails leaves every position, totalDeposited, the
\* eligibility flag, the badge records, the token counter and the balances
\* as they were before the call: each of the cases named is turned away by a
\* require (a revert), and a call that fails after it has written, because
\* the account it pays or mints to reverts, is put back to the storage the
\* call started from, the writes of the calls made meanwhile included.
C24_FailureAtomicity ==
    /\ []FailingCallsFail(Storage)
    /\ [][/\ Len(stack') > Len(stack) => stack'[Len(stack')].saved = Storage
           /\ \A j \in DOMAIN stack \cap DOMAIN stack' : stack'[j].saved = stack[j].saved
           /\ (stack # <<>> /\ CallbackReverts)
                 => /\ Storage' = Top.saved
                    /\ (Len(stack) = 1 => Committed' = Committed)]_vars

\* a mint is interrupted and the minter has made a call of its own: the
\* storage differs from the one the mint started from
C24_Witness ==
    /\ stack # <<>>
    /\ Top.fn = "mintSafetyBadge"
    /\ Top.calls = 1
    /\ Top.saved.tokenIdCounter # tokenIdCounter
    /\ Top.saved.userPositions # userPositions

\* the step changes what the contract holds for account b
AccountChanged(b) ==
    \/ userPositions'[b] # userPositions[b]
    \/ totalDeposited'[b] # totalDeposited[b]
    \/ hasUsedSafetyBuffer'[b] # hasUsedSafetyBuffer[b]
    \/ userBadgeTokenId'[b] # userBadgeTokenId[b]
    \/ payouts'[b] # payouts[b]

\* the step is a deposit, withdrawAndTrack or emergencyWithdraw called by a
PositionCallBy(a) ==
    \/ \E amount \in Amounts : \E value \in ValuesSent(amount) : Deposit(a, amount, value)
    \/ \E i \in PositionIds, c \in DestChains, g \in GasLimits, v \in FeesSent :
          WithdrawAndTrack(a, i, c, g, v)
    \/ \E i \in PositionIds, accepts \in BOOLEAN : EmergencyWithdraw(a, i, accepts)

\* C25: deposit, withdrawAndTrack and emergencyWithdraw called by account A
\* leave the positions, totalDeposited, safety-buffer flag and badge handle
\* of every other account unchanged, and pay nothing for its positions;
\* every position is in the list of the account that created it, which is
\* the only list a caller can reach, so no account can withdraw or
\* force-exit a position it did not create.
C25_AccountIsolation ==
    /\ [](\A u \in Accounts : \A k \in PositionKeys(Storage, u) :
            userPositions[u][k].user = u)
    /\ [][\A b \in Accounts :
            AccountChanged(b)
            => /\ \A a \in Accounts \ {b} : ~PositionCallBy(a)
               /\ stack # <<>> => Top.sender = b]_vars

\* both accounts hold positions, and one of them has had a position
\* refunded and another force-exited while the other account's is Active
C25_Witness ==
    /\ stack = <<>>
    /\ \E a, b \in Accounts :
          /\ a # b
          /\ \E k \in PositionKeys(Storage, a) : StatusOf(Storage, a, k) \in {Refunded, Failed}
          /\ hasUsedSafetyBuffer[a]
          /\ \E k \in PositionKeys(Storage, b) : StatusOf(Storage, b, k) = Active
          /\ ~hasUsedSafetyBuffer[b]
          /\ payouts[b] = <<<<>>>>

\* the step is a transferBadgeCrossChain(tokenId, chainId) of u that succeeds
RelocationCallEnds(u, tokenId, chainId) ==
    /\ badgeTransferredCrossChain'[tokenId] # badgeTransferredCrossChain[tokenId]
    /\ TransferBadgeError(Storage, u, tokenId) = ""
    /\ TransferBadgeCrossChain(u, tokenId, chainId)

\* C26: a successful transferBadgeCrossChain changes only
\* badgeTransferredCrossChain[tokenId] and emits the relocation event: it
\* moves no value, mints or burns no token, and leaves the token's owner,
\* userBadgeTokenId, the token counter and all positions unchanged.
C26_RelocationFrame ==
    [][\A u \in Accounts, t \in TokenIds, c \in DestChains :
          RelocationCallEnds(u, t, c)
          => /\ badgeTransferredCrossChain' = [badgeTransferredCrossChain EXCEPT ![t] = TRUE]
             /\ ~badgeTransferredCrossChain[t]
             /\ events' = [events EXCEPT ![u] = @ (+) SetToBag({[name |-> "BadgeTransferredCrossChain",
                                                               user |-> u, id |-> t, chainId |-> c]})]
             /\ owners[t] = u
             /\ UNCHANGED <<tokenIdCounter, userPositions, txHashToPositionId, totalDeposited,
                            hasUsedSafetyBuffer, userBadgeTokenId, owners, balance,
                            payouts, deposits, statusLog, mintedTo, gateway>>]_vars

\* a badge has been relocated: it is still owned on the home chain, by the
\* account whose badge handle it is, and no token was minted since
C26_Witness ==
    /\ stack = <<>>
    /\ \E t \in TokenIds :
          /\ badgeTransferredCrossChain[t]
          /\ owners[t] = mintedTo[t]
          /\ owners[t] \in Accounts
          /\ userBadgeTokenId[owners[t]] = t
          /\ tokenIdCounter = t + 1
          /\ Relocations(Storage, t) = 1

\* how many times position k of u was set to Withdrawn
TimesRequested(S, u, k) ==
    Cardinality({j \in DOMAIN S.statusLog[u][k] : S.statusLog[u][k][j] = Withdrawn})

\* C27: withdrawAndTrack on a position of the caller that is Withdrawn,
\* Refunded or Failed fails with "Position not active", and with a
\* positionId at or beyond the caller's position count it fails on the array
\* access, whatever the fee sent (a revert: nothing changes); so a position
\* is set to Withdrawn at most once.
C27_ValidatesFirst ==
    \A u \in Accounts :
        /\ \A i \in PositionIds \cup {MaxPositions} : \A v \in FeesTried :
              /\ i >= Len(userPositions[u])
                    => WithdrawError(Storage, u, i, v) = "Panic: array index out of bounds"
              /\ (i < Len(userPositions[u]) /\ PositionOf(Storage, u, i).status # Active)
                    => WithdrawError(Storage, u, i, v) = "Position not active"
        /\ \A k \in PositionKeys(Storage, u) :
              TimesRequested(Storage, u, k) <= 1

\* one account has a single position, Withdrawn, and another account has a
\* position that was refunded or force-exited
C27_Witness ==
    /\ stack = <<>>
    /\ \E u, w \in Accounts :
          /\ Len(userPositions[u]) = 1
          /\ StatusOf(Storage, u, 1) = Withdrawn
          /\ WithdrawError(Storage, u, 0, TotalGasFee) = "Position not active"
          /\ WithdrawError(Storage, u, 1, TotalGasFee) = "Panic: array index out of bounds"
          /\ \E k \in PositionKeys(Storage, w) : StatusOf(Storage, w, k) \in {Refunded, Failed}

\* how many times SafetyBufferUsed was emitted for u
Announcements(S, u) ==
    SumOver([i \in PositionIds |->
                CopiesIn([name |-> "SafetyBufferUsed", user |-> u, id |-> i], S.events[u])],
            PositionIds)

\* C28: hasUsedSafetyBuffer[account] never goes from true back to false
\* (the undoing of a call that reverts aside, and never from one
\* transaction to the next), and SafetyBufferUsed is emitted at most once
\* per account: in the account's first successful withdrawAndTrack, for the
\* position of that request, when the flag is set.
C28_FlagSetOnce ==
    /\ [](\A u \in Accounts :
            /\ Announcements(Storage, u) <= 1
            /\ hasUsedSafetyBuffer[u] <=> Announcements(Storage, u) = 1
            /\ hasUsedSafetyBuffer[u] <=> Requests(Storage) \cap ({u} \X (1 .. MaxPositions)) # {}
            /\ \A i \in PositionIds :
                  Emitted(Storage, u, "SafetyBufferUsed", i)
                  => HasPosition(Storage, u, i) /\ Requested(Storage, u, i))
    /\ [][\A u \in Accounts :
            /\ CallbackReverts \/ (hasUsedSafetyBuffer[u] => hasUsedSafetyBuffer'[u])
            /\ Committed.hasUsedSafetyBuffer[u] => Committed'.hasUsedSafetyBuffer[u]
            /\ (~hasUsedSafetyBuffer[u] /\ hasUsedSafetyBuffer'[u])
                  => /\ \A k \in DOMAIN statusLog[u] : ~WasRequested(statusLog[u][k])
                     /\ \E k \in DOMAIN statusLog[u] :
                           /\ WasRequested(statusLog'[u][k])
                           /\ events'[u] (-) events[u] =
                                 SetToBag({[name |-> "SafetyBufferUsed", user |-> u, id |-> k - 1],
                                           [name |-> "WithdrawInitiated", user |-> u, id |-> k - 1,
                                            txHash |-> userPositions'[u][k].crossChainTxHash]})
                                 (+) (IF statusLog'[u][k] = <<Active, Withdrawn, Refunded>> /\ stack' = stack
                                      THEN SetToBag({[name |-> "RevertSuccess", user |-> u, id |-> k - 1,
                                                      txHash |-> userPositions'[u][k].crossChainTxHash],
                                                     [name |-> "PositionRefunded", user |-> u, id |-> k - 1,
                                                      amount |-> userPositions[u][k].amount]})
                                      ELSE EmptyBag)]_vars

\* an account has made two successful requests and the event was emitted
\* for the first one only
C28_Witness ==
    /\ stack = <<>>
    /\ \E u \in Accounts :
          /\ Len(userPositions[u]) = 2
          /\ Requested(Storage, u, 0) /\ Requested(Storage, u, 1)
          /\ hasUsedSafetyBuffer[u]
          /\ Announcements(Storage, u) = 1

\* the positions of u in list Q are those of list P, index by index, with
\* the same owner and creation time, and possibly more after them
Extends(P, Q) ==
    /\ Len(Q) >= Len(P)
    /\ \A k \in DOMAIN P :
          /\ Q[k].user = P[k].user
          /\ Q[k].timestamp = P[k].timestamp

\* C29: for every account the number of positions never decreases, a
\* position created at index i stays at index i, and its user and its
\* creation timestamp never change (the undoing of a call that reverts
\* aside: what such a call created was never created).
C29_AppendOnly ==
    /\ [](\A u \in Accounts : \A k \in PositionKeys(Storage, u) :
            /\ userPositions[u][k].user = u
            /\ userPositions[u][k].timestamp <= now
            /\ Emitted(Storage, u, "PositionCreated", k - 1))
    /\ [][\A u \in Accounts :
            /\ CallbackReverts \/ Extends(userPositions[u], userPositions'[u])
            /\ Extends(Committed.userPositions[u], Committed'.userPositions[u])]_vars

\* a position created in an earlier block was refunded or force-exited, and
\* a later one was appended after it
C29_Witness ==
    /\ stack = <<>>
    /\ \E u \in Accounts :
          /\ Len(userPositions[u]) = 2
          /\ userPositions[u][1].timestamp < userPositions[u][2].timestamp
          /\ userPositions[u][1].status \in {Refunded, Failed}
          /\ userPositions[u][1].user = u

\* C30: totalDeposited[account] never decreases (the undoing of a call that
\* reverts aside, and never from one transaction to the next), and the only
\* step that changes it is a successful deposit by that account, which adds
\* the amount deposited: withdrawals, refunds, force exits and badge
\* operations leave it as it is.
C30_TotalMonotone ==
    /\ [](\A u \in Accounts : totalDeposited[u] = SumSeq(deposits[u]))
    /\ [][\A u \in Accounts :
            /\ Committed'.totalDeposited[u] >= Committed.totalDeposited[u]
            /\ (totalDeposited'[u] # totalDeposited[u] /\ ~CallbackReverts)
                  => /\ Len(userPositions'[u]) = Len(userPositions[u]) + 1
                     /\ totalDeposited'[u]
                           = totalDeposited[u] + userPositions'[u][Len(userPositions'[u])].amount
                     /\ \E amount \in Amounts : \E value \in ValuesSent(amount) :
                           /\ totalDeposited'[u] = totalDeposited[u] + amount
                           /\ Deposit(u, amount, value)]_vars

\* an account's total stands at what it deposited after one of its
\* positions was refunded, the other force-exited, and a badge minted
C30_Witness ==
    /\ stack = <<>>
    /\ \E u \in Accounts :
          /\ totalDeposited[u] = 2
          /\ \E k \in PositionKeys(Storage, u) : StatusOf(Storage, u, k) = Refunded
          /\ \E k \in PositionKeys(Storage, u) : StatusOf(Storage, u, k) = Failed
          /\ userBadgeTokenId[u] # 0

\* the step ends a mintSafetyBadge of u that passed its checks: the call
\* runs to its end in one step, or the minter's code returns to it
MintCallEnds(u) ==
    \/ /\ stack # <<>>
       /\ Top.fn = "mintSafetyBadge" /\ Top.sender = u
       /\ CallbackReturns
    \/ /\ Len(stack') = Len(stack)
       /\ tokenIdCounter' # tokenIdCounter
       /\ MintSafetyBadge(u)

\* the token id the mint that this step ends has drawn
MintedId(u) ==
    IF stack # <<>> /\ Len(stack') < Len(stack) THEN Top.id ELSE tokenIdCounter

\* the token ids in use before the mint that this step ends
UsedBefore(u) ==
    IF stack # <<>> /\ Len(stack') < Len(stack)
    THEN {t \in TokenIds : Top.saved.mintedTo[t] # ZeroAddress}
    ELSE {t \in TokenIds : mintedTo[t] # ZeroAddress}

\* C31: whenever isEligibleForBadge(account) is true, mintSafetyBadge called
\* by the account passes every check, and when it has run to its end (the
\* account having accepted the token) userBadgeTokenId[account] is a fresh
\* non-zero token id minted to the account and isEligibleForBadge(account)
\* is false, and stays false (the undoing of a call that reverts aside);
\* whenever it is false the call fails with "Not eligible" or "Badge already
\* minted" and changes nothing.
C31_MintIffEligible ==
    /\ [](\A u \in Accounts :
            /\ (IsEligibleForBadge(Storage, u) /\ tokenIdCounter \in TokenIds)
                  => MintError(Storage, u) = ""
            /\ ~IsEligibleForBadge(Storage, u)
                  => MintError(Storage, u) \in {"Not eligible: Must use safety buffer first",
                                                "Badge already minted"})
    /\ [][\A u \in Accounts :
            /\ MintCallEnds(u)
                  => /\ userBadgeTokenId'[u] = MintedId(u)
                     /\ userBadgeTokenId'[u] # 0
                     /\ userBadgeTokenId'[u] \notin UsedBefore(u)
                     /\ mintedTo'[userBadgeTokenId'[u]] = u
                     /\ ~IsEligibleForBadge(Storage', u)
                     /\ BagIn([name |-> "GenesisBadgeMinted", user |-> u, id |-> MintedId(u)],
                              events'[u])
            /\ (userBadgeTokenId[u] # 0 /\ ~CallbackReverts)
                  => ~IsEligibleForBadge(Storage', u)
            /\ Committed.userBadgeTokenId[u] # 0 => ~IsEligibleForBadge(Committed', u)
            /\ (~IsEligibleForBadge(Storage, u) /\ MintSafetyBadge(u))
                  => UNCHANGED storageVars]_vars

\* one account holds the badge it minted and is turned away as already
\* minted, the other has made no withdrawal and is turned away as not
\* eligible
C31_Witness ==
    /\ stack = <<>>
    /\ \E u, w \in Accounts :
          /\ userBadgeTokenId[u] # 0
          /\ mintedTo[userBadgeTokenId[u]] = u
          /\ hasUsedSafetyBuffer[u]
          /\ ~IsEligibleForBadge(Storage, u)
          /\ MintError(Storage, u) = "Badge already minted"
          /\ MintError(Storage, w) = "Not eligible: Must use safety buffer first"

\* position k of u in storage S has been through a withdrawAndTrack with
\* gasLimit >= 150000 (line 121 not taken) and through nothing since
Parked(S, u, k) == S.statusLog[u][k] = <<Active, Withdrawn>>

\* no call gets at position k of u in storage S: its owner's calls on it are
\* turned away, and it is in no other account's list
OutOfReach(S, u, k) ==
    /\ \A v \in FeesTried : WithdrawError(S, u, k - 1, v) = "Position not active"
    /\ \A accepts \in BOOLEAN :
          EmergencyCallError(S, u, k - 1, accepts) = "Position not active"
    /\ HandleRevertError(S, u, k - 1) = ""
    /\ S.userPositions[u][k].user = u

OwedTo(S, u) ==
    SumOver([k \in PositionKeys(S, u) |->
                IF StatusOf(S, u, k) \in {Active, Withdrawn}
                THEN S.userPositions[u][k].amount ELSE 0],
            PositionKeys(S, u))

\* the same for all accounts together
Owed(S) == SumOver([u \in Accounts |-> OwedTo(S, u)], Accounts)

\* no payout that storage S allows is short of funds
PayoutsFunded(S) ==
    \A u \in Accounts, i \in PositionIds :
        /\ EmergencyError(S, u, i) # "transfer failed"
        /\ ValidActive(S, u, i)
              => \A c \in DestChains, g \in GasLimits :
                    HandleRevertError(WithdrawRequest(S, u, i, c, g, TotalGasFee, now), u, i) = ""

\* C33: in every reachable state, the state a re-entrant call finds while a
\* refund's value transfer is under way included, the contract's balance is
\* at least the sum of the stored amounts of all Active and Withdrawn
\* positions of all accounts, so that no refund and no force exit fails for
\* lack of funds.
C33_Solvency ==
    /\ balance >= Owed(Storage)
    /\ balance >= 0
    /\ PayoutsFunded(Storage)
    /\ stack # <<>> => Top.saved.balance >= Owed(Top.saved)

\* a refund's value transfer is under way: the amount has left the contract,
\* and the contract still holds the amount of another position
C33_Witness ==
    /\ stack # <<>>
    /\ Top.fn = "withdrawAndTrack"
    /\ payouts[Top.sender][Top.id + 1] = <<Top.amount>>
    /\ Top.amount > 0
    /\ Owed(Storage) > 0
    /\ balance = Top.saved.balance + TotalGasFee - Top.amount

\* the value the contract has paid to u
PaidTo(S, u) ==
    SumOver([k \in PositionKeys(S, u) |-> SumSeq(S.payouts[u][k])], PositionKeys(S, u))

\* the value the contract has paid out
PaidOut ==
    SumOver([x \in Accounts \X (1 .. MaxPositions) |->
                IF x[2] \in DOMAIN payouts[x[1]] THEN SumSeq(payouts[x[1]][x[2]]) ELSE 0],
            Accounts \X (1 .. MaxPositions))

\* the successful withdrawal requests made so far
NumRequests ==
    Cardinality({x \in Accounts \X (1 .. MaxPositions) :
                    x[2] \in DOMAIN statusLog[x[1]] /\ WasRequested(statusLog[x[1]][x[2]])})

\* C34: the value paid to an account never exceeds totalDeposited[account]:
\* every payment is the amount one of its positions was deposited with; the
\* fee of every successful withdrawAndTrack stays in the contract on top of
\* what the positions are owed, on the refund path too, and so does the
\* value a deposit sent above its amount: no step takes more out of the
\* contract than the position amount it pays.
C34_FeesRetained ==
    /\ [](/\ \A u \in Accounts :
                /\ PaidTo(Storage, u) <= totalDeposited[u]
                /\ \A k \in PositionKeys(Storage, u) : \A j \in DOMAIN payouts[u][k] :
                      payouts[u][k][j] = deposits[u][k]
          /\ balance >= Owed(Storage) + TotalGasFee * NumRequests)
    /\ [][(storageVars' # storageVars /\ ~CallbackReverts)
            => /\ balance' + PaidOut' >= balance + PaidOut
               /\ NumRequests' > NumRequests
                     => balance' + PaidOut' >= balance + PaidOut + TotalGasFee
               /\ NumPositions' > NumPositions
                     => \E u \in Accounts :
                           /\ Len(userPositions'[u]) > Len(userPositions[u])
                           /\ balance' >= balance + userPositions'[u][Len(userPositions'[u])].amount]_vars

\* every position has been paid back, one of them by a refund, and the
\* contract holds the fee and the value a deposit sent above its amount
C34_Witness ==
    /\ stack = <<>>
    /\ Owed(Storage) = 0
    /\ NumRequests = 1
    /\ balance > TotalGasFee
    /\ \E u \in Accounts :
          /\ HasRefund(Storage, u)
          /\ PaidTo(Storage, u) = totalDeposited[u]
          /\ totalDeposited[u] > 0

\* the step is an emergencyWithdraw of position k - 1 by u that succeeds
ExitCallEnds(u, k) ==
    /\ userPositions'[u] # userPositions[u]
    /\ EmergencyCallError(Storage, u, k - 1, TRUE) = ""
    /\ EmergencyWithdraw(u, k - 1, TRUE)

\* u has done nothing with its positions but create and force-exit them
OnlyDepositedAndExited(S, u) ==
    \A k \in PositionKeys(S, u) : S.statusLog[u][k] \in {<<Active>>, <<Active, Failed>>}

\* C35: a successful emergencyWithdraw sets the exited position's status to
\* Failed and its amount to 0 and sends the amount to the caller, and
\* changes nothing else: not hasUsedSafetyBuffer, not a crossChainTxHash,
\* not txHashToPositionId, not totalDeposited, no badge record and no other
\* position; so an account that has only deposited and force-exited is not
\* badge-eligible and its mintSafetyBadge fails as not eligible.
C35_ExitGrantsNothing ==
    /\ [](\A u \in Accounts :
            OnlyDepositedAndExited(Storage, u)
            => /\ ~hasUsedSafetyBuffer[u]
               /\ ~IsEligibleForBadge(Storage, u)
               /\ MintError(Storage, u) = "Not eligible: Must use safety buffer first"
               /\ \A k \in PositionKeys(Storage, u) :
                     userPositions[u][k].crossChainTxHash = ZeroHash)
    /\ [][\A u \in Accounts : \A k \in DOMAIN userPositions[u] :
            ExitCallEnds(u, k)
            => /\ userPositions' =
                     [userPositions EXCEPT ![u][k] = [@ EXCEPT !.status = Failed, !.amount = 0]]
               /\ userPositions[u][k].status = Active
               /\ userPositions'[u][k].crossChainTxHash = ZeroHash
               /\ balance' = balance - userPositions[u][k].amount
               /\ payouts' = [payouts EXCEPT ![u][k] = <<userPositions[u][k].amount>>]
               /\ UNCHANGED <<hasUsedSafetyBuffer, txHashToPositionId, totalDeposited,
                              userBadgeTokenId, tokenIdCounter, owners,
                              badgeTransferredCrossChain, events, deposits, mintedTo,
                              gateway, now>>]_vars

\* an account has force-exited a position and is not eligible, with its
\* total as deposited, while the other account has become eligible
C35_Witness ==
    /\ stack = <<>>
    /\ \E u, w \in Accounts :
          /\ OnlyDepositedAndExited(Storage, u)
          /\ \E k \in PositionKeys(Storage, u) :
                /\ statusLog[u][k] = <<Active, Failed>>
                /\ payouts[u][k] = <<deposits[u][k]>>
          /\ totalDeposited[u] = SumSeq(deposits[u])
          /\ ~IsEligibleForBadge(Storage, u)
          /\ IsEligibleForBadge(Storage, w)

\* tokenId was minted to an account whose mintSafetyBadge has returned, and
\* is now owned by another account
PassedOn(S, tokenId) ==
    /\ S.mintedTo[tokenId] \in Accounts
    /\ S.owners[tokenId] \in Accounts \ {S.mintedTo[tokenId]}
    /\ S.userBadgeTokenId[S.mintedTo[tokenId]] # 0

\* how many times u has relocated tokenId
RelocatedBy(S, u, tokenId) ==
    SumOver([c \in DestChains |->
                CopiesIn([name |-> "BadgeTransferredCrossChain", user |-> u,
                          id |-> tokenId, chainId |-> c], S.events[u])],
            DestChains)

\* C36 (as claimed): when A has minted its badge and the token is owned by
\* B, A's mintSafetyBadge fails as already minted, A's
\* transferBadgeCrossChain of the token fails as not the owner, and B can
\* relocate the token exactly once: B's transferBadgeCrossChain succeeds
\* until B has relocated it, and fails from then on.
C36_NewOwnerRelocatesOnce ==
    \A t \in TokenIds :
        PassedOn(Storage, t)
        => /\ MintError(Storage, mintedTo[t]) = "Badge already minted"
           /\ TransferBadgeError(Storage, mintedTo[t], t) = "Not badge owner"
           /\ IF RelocatedBy(Storage, owners[t], t) = 0
              THEN TransferBadgeError(Storage, owners[t], t) = ""
              ELSE /\ RelocatedBy(Storage, owners[t], t) = 1
                   /\ TransferBadgeError(Storage, owners[t], t)
                         = "Already transferred cross-chain"

\* C36 (amended): when A has minted its badge and the token is owned by B,
\* A's mintSafetyBadge fails as already minted (userBadgeTokenId[A] stays
\* set: a token transfer changes the owner only), A's
\* transferBadgeCrossChain of the token fails as not the owner, and B's
\* succeeds, whether B is eligible or not, if and only if the token has not
\* been relocated before, by A or by B: the token is relocated at most once
\* by all its owners together, and after that B's call fails as already
\* transferred.
C36_RightFollowsOwner ==
    /\ [](\A t \in TokenIds :
            PassedOn(Storage, t)
            => /\ MintError(Storage, mintedTo[t]) = "Badge already minted"
               /\ TransferBadgeError(Storage, mintedTo[t], t) = "Not badge owner"
               /\ TransferBadgeError(Storage, owners[t], t) = ""
                     <=> ~badgeTransferredCrossChain[t]
               /\ badgeTransferredCrossChain[t]
                     => TransferBadgeError(Storage, owners[t], t)
                           = "Already transferred cross-chain"
               /\ RelocatedBy(Storage, mintedTo[t], t) + RelocatedBy(Storage, owners[t], t)
                     = IF badgeTransferredCrossChain[t] THEN 1 ELSE 0)
    /\ [][\A t \in TokenIds :
            /\ (owners[t] # ZeroAddress /\ owners'[t] # owners[t] /\ ~CallbackReverts)
                  => /\ owners'[t] # ZeroAddress
                     /\ UNCHANGED <<userBadgeTokenId, hasUsedSafetyBuffer,
                                    badgeTransferredCrossChain, tokenIdCounter, mintedTo>>
            /\ \A u \in Accounts \ {mintedTo[t]}, c \in DestChains :
                  RelocationCallEnds(u, t, c)
                  => /\ owners[t] = u
                     /\ RelocatedBy(Storage, mintedTo[t], t) = 0
                     /\ UNCHANGED <<userBadgeTokenId, hasUsedSafetyBuffer, owners>>]_vars

\* a token minted to one account has been relocated by the account it was
\* transferred to, which has never been eligible; the minter keeps its handle
C36_Witness ==
    /\ stack = <<>>
    /\ \E t \in TokenIds :
          /\ PassedOn(Storage, t)
          /\ userBadgeTokenId[mintedTo[t]] = t
          /\ ~hasUsedSafetyBuffer[owners[t]]
          /\ userBadgeTokenId[owners[t]] = 0
          /\ RelocatedBy(Storage, owners[t], t) = 1
          /\ RelocatedBy(Storage, mintedTo[t], t) = 0
          /\ badgeTransferredCrossChain[t]

\* the token ids minted so far (no token is ever burnt)
MintedIds(S) == {t \in TokenIds : S.mintedTo[t] # ZeroAddress}

\* C37: _tokenIdCounter starts at 1; every mint draws the id the counter
\* stands at and moves the counter up by exactly 1, and nothing else moves
\* it (the undoing of a call that reverts aside, and from one transaction
\* to the next it never decreases); the ids minted are always exactly
\* 1 .. _tokenIdCounter - 1, each minted once, and 0 is not among them: a
\* non-zero userBadgeTokenId[account] is the id of a token minted to the
\* account, and between transactions userBadgeTokenId[account] is 0 exactly
\* when no badge has been minted to the account.
C37_TokenIdAllocation ==
    /\ [](/\ tokenIdCounter >= 1
          /\ MintedIds(Storage) = 1 .. (tokenIdCounter - 1)
          /\ 0 \notin MintedIds(Storage)
          /\ \A t \in TokenIds : owners[t] # ZeroAddress <=> t \in MintedIds(Storage)
          /\ \A u \in Accounts :
                /\ userBadgeTokenId[u] # 0
                      => /\ userBadgeTokenId[u] \in MintedIds(Storage)
                         /\ mintedTo[userBadgeTokenId[u]] = u
                /\ stack = <<>> => (userBadgeTokenId[u] = 0 <=> MintedTo(Storage, u) = {}))
    /\ [][/\ Committed'.tokenIdCounter >= Committed.tokenIdCounter
          /\ ~CallbackReverts
                => /\ tokenIdCounter' \in {tokenIdCounter, tokenIdCounter + 1}
                   /\ tokenIdCounter' = tokenIdCounter + 1
                         <=> (\E u \in Accounts : MintSafetyBadge(u) /\ MintError(Storage, u) = "")
                   /\ tokenIdCounter' = tokenIdCounter + 1
                         => /\ mintedTo[tokenIdCounter] = ZeroAddress
                            /\ mintedTo' = [mintedTo EXCEPT ![tokenIdCounter] = owners'[tokenIdCounter]]
                            /\ mintedTo'[tokenIdCounter] \in Accounts
                   /\ tokenIdCounter' = tokenIdCounter => mintedTo' = mintedTo]_vars
    /\ tokenIdCounter = 1

\* two badges have been minted, with ids 1 and 2, to two accounts
C37_Witness ==
    /\ stack = <<>>
    /\ tokenIdCounter = 3
    /\ MintedIds(Storage) = {1, 2}
    /\ mintedTo[1] # mintedTo[2]
    /\ userBadgeTokenId[mintedTo[1]] = 1
    /\ userBadgeTokenId[mintedTo[2]] = 2

\* position k of u in storage S carries a reference exactly when a
\* withdrawal was requested for it, and the reference leads back to it
ReferenceKept(S, u, k) ==
    LET p == S.userPositions[u][k]
    IN  /\ p.crossChainTxHash # ZeroHash <=> p.status \in {Withdrawn, Refunded}
        /\ p.status \in {Active, Failed} => p.crossChainTxHash = ZeroHash
        /\ p.crossChainTxHash # ZeroHash
              => /\ p.crossChainTxHash \in DOMAIN S.txHashToPositionId
                 /\ S.txHashToPositionId[p.crossChainTxHash] = k - 1

\* C38: in every reachable state (and in the storage every interrupted call
\* would be put back to) a position's crossChainTxHash is non-zero exactly
\* when its status is Withdrawn or Refunded, so Active and Failed positions
\* have a zero reference, and for every position with a non-zero reference
\* txHashToPositionId[crossChainTxHash] is the position's index in its
\* owner's list.
C38_ReferenceBookkeeping ==
    /\ \A u \in Accounts : \A k \in PositionKeys(Storage, u) : ReferenceKept(Storage, u, k)
    /\ \A j \in DOMAIN stack :
          \A u \in Accounts : \A k \in PositionKeys(stack[j].saved, u) :
             ReferenceKept(stack[j].saved, u, k)

\* an account's position 0 was force-exited and has no reference, and its
\* position 1 has been through a request and its reference maps to 1
C38_Witness ==
    /\ stack = <<>>
    /\ \E u \in Accounts :
          /\ Len(userPositions[u]) = 2
          /\ userPositions[u][1].status = Failed
          /\ userPositions[u][1].crossChainTxHash = ZeroHash
          /\ userPositions[u][2].status \in {Withdrawn, Refunded}
          /\ userPositions[u][2].crossChainTxHash = TxHash(u, 1, now, 1)
          /\ txHashToPositionId[userPositions[u][2].crossChainTxHash] = 1

====
